---- MODULE Spec2Model ----
(***************************************************************************)
(* Feature detection, convention aggregation and fallback resolution of   *)
(* annotation_guidelines_generator.py.                                    *)
(*                                                                         *)
(* The specifications share the variables below:                          *)
(*   SpecNormalize  normalize on a raw sample, applied twice              *)
(*   SpecDetect     detect on a raw sample                                *)
(*   SpecOrdinal    detect_ordinal_style on a sample of ordinals          *)
(*   SpecDate       detect_date_style on a sample of dates                *)
(*   SpecAggregate  get_primary_convention_with_percentage on a series    *)
(*   SpecResolve    get_aggregated_value on an arbitrary table            *)
(*   Spec           analyze() building the summary table, then the        *)
(*                  queries generate_guidelines() makes on the saved one  *)
(*                                                                         *)
(* A file or column name is a sequence of tokens, so that substring       *)
(* search (str.contains, "m in col.lower()") and str.replace are          *)
(* computed; a sample is a sequence of code points, on which normalize    *)
(* and the regular expressions are computed.                              *)
(* A share count / total is the pair <<n, d>> in lowest terms, which is    *)
(* equal exactly when the two floating-point quotients are equal.         *)
(***************************************************************************)
EXTENDS Integers, Sequences, FiniteSets, TLC

VARIABLES
    series,     \* the column of observations handed to the aggregator
    agg,        \* its (convention, percentage) result
    results,    \* analyze(): the list of rows built so far
    last,       \* analyze(): position of the loops over files and columns
    pc,         \* phase of the program
    df,         \* the table handed to get_aggregated_value
    columns,    \* df.columns
    query,      \* the (lang_code, model_name, column_name) asked for
    res,        \* what get_aggregated_value returned or raised
    sample,     \* the raw sample handed to normalize or detect
    order,      \* the orders in which the lexicon sets were enumerated at import
    text,       \* the sample as normalized so far
    feats       \* what detect or a sub-detector returned

vars == <<series, agg, results, last, pc, df, columns, query, res, sample, order, text, feats>>

\* ------------------------------------------------------------------ bounds

MaxSeries == 4
MaxSamples == 2
MaxGroups == 2
MaxRows == 3

\* --------------------------------------------------------------- helpers

\* before the call under study has returned
NoAgg == <<"pending", <<0, 1>>>>
NoQuery == [lang_code |-> <<>>, model_name |-> "", column_name |-> <<>>]
NoResult == [raised |-> FALSE, value |-> "None", confidence |-> <<0, 1>>, source |-> "pending"]
NoOrder == [number |-> <<>>, ordinal |-> <<>>]
NoFeats ==
    [percent_mode |-> "pending", currency_mode |-> "pending", thousand_sep_mode |-> "pending",
     unit_mode |-> "pending", ordinal_style |-> "pending", number_style |-> "pending",
     hesitation_plain |-> FALSE, punctuation |-> FALSE, uppercase |-> <<0, 1>>,
     date_format |-> "pending"]
None == "None"
NOT_DETECTED == "not_detected"

RECURSIVE Gcd(_, _)
Gcd(a, b) == IF b = 0 THEN a ELSE Gcd(b, a % b)

\* count / total as a float: equal floats are equal pairs
Div(n, d) == <<n \div Gcd(n, d), d \div Gcd(n, d)>>

Zero == <<0, 1>>

SeqsUpTo(S, n) == UNION {[1..k -> S] : k \in 0..n}

\* ------------------------------------------------- dominant pattern analysis

\* filtered = [x for x in series if x is not None]
Filtered(s) == SelectSeq(s, LAMBDA x : x # None)

\* Counter(filtered)[v]
CountOf(s, v) == Cardinality({i \in 1..Len(s) : s[i] = v})

\* Counter keeps its keys in insertion order: the index of the first
\* occurrence of each value
FirstIndex(s, v) == CHOOSE i \in 1..Len(s) :
                        s[i] = v /\ \A j \in 1..(i - 1) : s[j] # v

\* a mutant: of the values holding the largest count, the one seen last
MostCommonLast(s) ==
    LET best == {i \in 1..Len(s) : \A j \in 1..Len(s) : CountOf(s, s[j]) <= CountOf(s, s[i])}
    IN  s[CHOOSE i \in best : \A j \in best : j <= i]

\* counter.most_common(1)[0][0]: max() over the items in insertion
\* order keeps the first item holding the largest count
MostCommon(s) ==
    LET keys == {FirstIndex(s, s[i]) : i \in 1..Len(s)}
        best == {i \in keys : \A j \in keys : CountOf(s, s[j]) <= CountOf(s, s[i])}
    IN  s[CHOOSE i \in best : \A j \in best : i <= j]

\* a mutant: the share is taken over the whole series, absent values included
PrimaryDiluted(s) ==
    LET filtered == Filtered(s)
    IN  IF filtered = <<>>
        THEN <<NOT_DETECTED, Zero>>
        ELSE <<MostCommon(filtered), Div(CountOf(filtered, MostCommon(filtered)), Len(s))>>

get_primary_convention_with_percentage(s) ==
    LET filtered == Filtered(s)
    IN  IF filtered = <<>>
        THEN <<NOT_DETECTED, Zero>>
        ELSE <<MostCommon(filtered), Div(CountOf(filtered, MostCommon(filtered)), Len(filtered))>>

\* ------------------------------------------------------- text as tokens

\* needle in haystack
Contains(haystack, needle) ==
    \E i \in 1..(Len(haystack) - Len(needle) + 1) :
        SubSeq(haystack, i, i + Len(needle) - 1) = needle

\* name.replace(old, new)
Replace(name, old, new) ==
    [i \in 1..Len(name) |-> IF name[i] = old THEN new ELSE name[i]]

\* --------------------------------------------------------- the summary table

FILE == <<"file">>
MODEL == <<"model">>
THOUSAND_SEPARATOR_FORMAT == <<"thousand_separator", "_format">>
THOUSAND_SEPARATOR_MAJORITY_PCT == <<"thousand_separator", "_majority_pct">>
ORDINAL_STYLE == <<"ordinal", "_style">>
ORDINAL_MAJORITY_PCT == <<"ordinal", "_majority_pct">>

\* the feature columns the model follows (two of the seven, one of each suffix)
FeatureColumns == {THOUSAND_SEPARATOR_FORMAT, ORDINAL_STYLE}

\* the values detect() gives each feature
FeatureValues(c) ==
    IF c = THOUSAND_SEPARATOR_FORMAT THEN {"dot", "comma"} ELSE {"digit_suffix", "word"}

\* default_values of generate_guidelines
default_values ==
    (THOUSAND_SEPARATOR_FORMAT :> "dot") @@ (<<"percent", "_format">> :> "symbol_no_space")
    @@ (<<"unit", "_format">> :> "long") @@ (<<"date", "_format">> :> "dd_month_yyyy")
    @@ (<<"currency", "_format">> :> "word") @@ (ORDINAL_STYLE :> "word")
    @@ (<<"number", "_style">> :> "digit")

\* dict.get(key)
Get(dict, key) == IF key \in DOMAIN dict THEN dict[key] ELSE None

\* ------------------------------------------------------ guideline generation

Return(value, confidence, source) ==
    [raised |-> FALSE, value |-> value, confidence |-> confidence, source |-> source]

\* df[column] on a table without that column
KeyError == [raised |-> TRUE, value |-> None, confidence |-> Zero, source |-> "KeyError"]

\* df[column_name] as a list
Column(d, c) == [i \in 1..Len(d) |-> d[i][c]]

\* series[series != "not_detected"]
Detected(values) == SelectSeq(values, LAMBDA v : v # NOT_DETECTED)

\* value_counts().index[0]: a value of the largest count; the order of equal
\* counts is the sort's, which pandas does not fix
IndexZero(values) ==
    {values[i] : i \in {k \in 1..Len(values) :
        \A j \in 1..Len(values) : CountOf(values, values[j]) <= CountOf(values, values[k])}}

\* conf_col = column_name.replace("_format", "_majority_pct").replace("_style", "_majority_pct")
ConfCol(column_name) ==
    Replace(Replace(column_name, "_format", "_majority_pct"), "_style", "_majority_pct")

\* a mutant: the first matching row is returned whatever it holds
LanguageModelUnchecked(filtered, cols, column_name) ==
    IF filtered = <<>> THEN {}
    ELSE IF column_name \notin cols THEN {KeyError}
    ELSE {Return(filtered[1][column_name],
                 IF ConfCol(column_name) \in cols THEN filtered[1][ConfCol(column_name)] ELSE Zero,
                 "language_model")}

\* a mutant: iloc[0] without the emptiness test
LanguageModelNoEmptyTest(filtered, cols, column_name) ==
    IF filtered = <<>> \/ column_name \notin cols THEN {KeyError}
    ELSE IF filtered[1][column_name] = NOT_DETECTED THEN {}
    ELSE {Return(filtered[1][column_name],
                 IF ConfCol(column_name) \in cols THEN filtered[1][ConfCol(column_name)] ELSE Zero,
                 "language_model")}

\* lines 433-437: the outcomes of the language_model level; {} when it falls through
LanguageModelLevel(filtered, cols, column_name) ==
    IF filtered = <<>> THEN {}
    ELSE IF column_name \notin cols THEN {KeyError}
    ELSE IF filtered[1][column_name] = NOT_DETECTED THEN {}
    ELSE {Return(filtered[1][column_name],
                 IF ConfCol(column_name) \in cols THEN filtered[1][ConfCol(column_name)] ELSE Zero,
                 "language_model")}

\* a mutant: the share is taken over every row of the scope
MajorityOverRows(scope, cols, column_name, source) ==
    IF scope = <<>> THEN {}
    ELSE IF column_name \notin cols THEN {KeyError}
    ELSE LET values == Detected(Column(scope, column_name))
         IN  IF values = <<>> THEN {}
             ELSE {Return(v, Div(CountOf(values, v), Len(scope)), source) : v \in IndexZero(values)}

\* lines 442-451 and 456-465: a majority level over the rows of its scope
MajorityLevel(scope, cols, column_name, source) ==
    IF scope = <<>> THEN {}
    ELSE IF column_name \notin cols THEN {KeyError}
    ELSE LET values == Detected(Column(scope, column_name))
         IN  IF values = <<>> THEN {}
             ELSE {Return(v, Div(CountOf(values, v), Len(values)), source) : v \in IndexZero(values)}

\* a mutant: the column is looked up only when the table has it
GlobalLevelGuarded(d, cols, column_name) ==
    IF column_name \notin cols THEN {}
    ELSE LET values == Detected(Column(d, column_name))
         IN  IF values = <<>> THEN {}
             ELSE {Return(v, Div(CountOf(values, v), Len(values)), "global_majority") :
                     v \in IndexZero(values)}

\* lines 468-474: the global level reads the column of the whole table
GlobalLevel(d, cols, column_name) ==
    IF column_name \notin cols THEN {KeyError}
    ELSE LET values == Detected(Column(d, column_name))
         IN  IF values = <<>> THEN {}
             ELSE {Return(v, Div(CountOf(values, v), Len(values)), "global_majority") :
                     v \in IndexZero(values)}

\* lines 477-478
DefaultLevel(defaults, column_name) == {Return(Get(defaults, column_name), Zero, "default")}

\* df["file"].str.contains(f"_{lang_code}_")
LangFilter(d, lang_code) ==
    SelectSeq(d, LAMBDA r : Contains(r[FILE], <<"_">> \o lang_code \o <<"_">>))

\* df["model"] == model_name
ModelFilter(d, model_name) == SelectSeq(d, LAMBDA r : r[MODEL] = model_name)

\* a mutant: the model majority is consulted before the language majority
AggregatedModelFirst(d, cols, lang_code, model_name, column_name, defaults) ==
    IF FILE \notin cols \/ MODEL \notin cols THEN {KeyError}
    ELSE LET l1 == LanguageModelLevel(ModelFilter(LangFilter(d, lang_code), model_name), cols, column_name)
             l2 == MajorityLevel(ModelFilter(d, model_name), cols, column_name, "model_majority")
             l3 == MajorityLevel(LangFilter(d, lang_code), cols, column_name, "language_majority")
             l4 == GlobalLevel(d, cols, column_name)
         IN  IF l1 # {} THEN l1 ELSE IF l2 # {} THEN l2 ELSE IF l3 # {} THEN l3
             ELSE IF l4 # {} THEN l4 ELSE DefaultLevel(defaults, column_name)

\* a mutant: no global level
AggregatedNoGlobal(d, cols, lang_code, model_name, column_name, defaults) ==
    IF FILE \notin cols \/ MODEL \notin cols THEN {KeyError}
    ELSE LET l1 == LanguageModelLevel(ModelFilter(LangFilter(d, lang_code), model_name), cols, column_name)
             l2 == MajorityLevel(LangFilter(d, lang_code), cols, column_name, "language_majority")
             l3 == MajorityLevel(ModelFilter(d, model_name), cols, column_name, "model_majority")
         IN  IF l1 # {} THEN l1 ELSE IF l2 # {} THEN l2 ELSE IF l3 # {} THEN l3
             ELSE IF column_name \notin cols THEN {KeyError}
             ELSE DefaultLevel(defaults, column_name)

\* the set of results get_aggregated_value can give (one, but for equal counts)
get_aggregated_value(d, cols, lang_code, model_name, column_name, defaults) ==
    IF FILE \notin cols \/ MODEL \notin cols THEN {KeyError}
    ELSE LET l1 == LanguageModelLevel(ModelFilter(LangFilter(d, lang_code), model_name), cols, column_name)
             l2 == MajorityLevel(LangFilter(d, lang_code), cols, column_name, "language_majority")
             l3 == MajorityLevel(ModelFilter(d, model_name), cols, column_name, "model_majority")
             l4 == GlobalLevel(d, cols, column_name)
         IN  IF l1 # {} THEN l1 ELSE IF l2 # {} THEN l2 ELSE IF l3 # {} THEN l3
             ELSE IF l4 # {} THEN l4 ELSE DefaultLevel(defaults, column_name)

\* --------------------------------------------- SpecResolve: the fallback resolver

\* "transcriptions_fr_1.csv" and "transcriptions_es_fr.csv": only the first
\* holds "_fr_"
FileFr == <<"transcriptions", "_", "fr", "_", "1", ".csv">>
FileEs == <<"transcriptions", "_", "es", "_", "fr", ".csv">>
TableFiles == {FileFr, FileEs}
TableModels == {"whisper", "canary"}

\* the language codes and model names asked for: one in the tables, one in none
QueryLangs == {<<"fr">>, <<"de">>}
QueryModels == {"whisper", "parakeet"}

\* the headers of the tables handed in: with the share column, without it,
\* without the feature
ColumnSets ==
    {{FILE, MODEL, THOUSAND_SEPARATOR_FORMAT, THOUSAND_SEPARATOR_MAJORITY_PCT},
     {FILE, MODEL, ORDINAL_STYLE, ORDINAL_MAJORITY_PCT},
     {FILE, MODEL, ORDINAL_STYLE},
     {FILE, MODEL}}

\* the share a table row stores beside a value
StoredShare(v) ==
    IF v = NOT_DETECTED THEN Zero ELSE IF v \in {"dot", "word"} THEN <<2, 3>> ELSE <<1, 1>>

TableRow(cols, f, m, v) ==
    [c \in cols |-> IF c = FILE THEN f
                    ELSE IF c = MODEL THEN m
                    ELSE IF c \in FeatureColumns THEN v
                    ELSE StoredShare(v)]

TableRows(cols) ==
    {TableRow(cols, f, m, v) : f \in TableFiles, m \in TableModels,
        v \in IF cols \cap FeatureColumns = {} THEN {NOT_DETECTED}
              ELSE {NOT_DETECTED} \cup FeatureValues(CHOOSE c \in cols : c \in FeatureColumns)}

InitResolve ==
    /\ columns \in ColumnSets
    /\ df \in SeqsUpTo(TableRows(columns), MaxRows)
    /\ pc = "resolve"
    /\ query = NoQuery
    /\ res = NoResult
    /\ series = <<>>
    /\ agg = NoAgg
    /\ sample = <<>>
    /\ order = NoOrder
    /\ text = <<>>
    /\ feats = NoFeats
    /\ results = <<>>
    /\ last = 0

Resolve ==
    /\ pc = "resolve"
    /\ pc' = "resolved"
    /\ \E lang_code \in QueryLangs, model_name \in QueryModels, column_name \in FeatureColumns :
         /\ query' = [lang_code |-> lang_code, model_name |-> model_name, column_name |-> column_name]
         /\ res' \in get_aggregated_value(df, columns, lang_code, model_name, column_name, default_values)
    /\ UNCHANGED <<sample, order, text, feats, series, agg, results, last, df, columns>>

NextResolve == Resolve

SpecResolve == InitResolve /\ [][NextResolve]_vars

\* ------------------------------------------------ SpecAggregate: the aggregator

ThousandModes == {"space", "dot", "comma"}

InitAggregate ==
    /\ series \in SeqsUpTo(ThousandModes \cup {None}, MaxSeries)
    /\ agg = NoAgg
    /\ sample = <<>>
    /\ order = NoOrder
    /\ text = <<>>
    /\ feats = NoFeats
    /\ results = <<>>
    /\ last = 0
    /\ pc = "aggregate"
    /\ df = <<>>
    /\ columns = {}
    /\ query = NoQuery
    /\ res = NoResult

Aggregate ==
    /\ pc = "aggregate"
    /\ agg' = get_primary_convention_with_percentage(series)
    /\ pc' = "aggregated"
    /\ UNCHANGED <<sample, order, text, feats, series, results, last, df, columns, query, res>>

NextAggregate == Aggregate

SpecAggregate == InitAggregate /\ [][NextAggregate]_vars

\* ------------------------------------------- Spec: analyze, then the queries

\* model_names of analyze
model_names == <<"whisper", "canary", "parakeet">>

\* col.lower()
Lower(col) ==
    [i \in 1..Len(col) |-> IF col[i] = "Whisper" THEN "whisper"
                           ELSE IF col[i] = "Canary" THEN "canary"
                           ELSE col[i]]

\* any(m in col.lower() for m in model_names)
IsModelColumn(col) == \E k \in 1..Len(model_names) : Contains(Lower(col), <<model_names[k]>>)

\* [m for m in model_names if m in col.lower()][0]
ModelOf(col) ==
    model_names[CHOOSE k \in 1..Len(model_names) :
        /\ Contains(Lower(col), <<model_names[k]>>)
        /\ \A j \in 1..(k - 1) : ~Contains(Lower(col), <<model_names[j]>>)]

\* the files glob can find and the columns a file can have, in loop order
GlobFiles == <<FileFr, FileEs>>
ColumnNames == <<<<"text">>, <<"whisper">>, <<"Canary", "_", "Whisper">>, <<"canary">>>>

\* the loops of analyze visit position p: file FileAt(p), column ColumnAt(p)
Positions == 1..(Len(GlobFiles) * Len(ColumnNames))
FileAt(p) == GlobFiles[((p - 1) \div Len(ColumnNames)) + 1]
ColumnAt(p) == ColumnNames[((p - 1) % Len(ColumnNames)) + 1]

\* what detect() gives a sample, for the two features followed
FeatureRecords == [thousand_sep_mode : {None, "dot", "comma"}, ordinal_style : {None, "word"}]

\* the columns of the summary that the model follows
SummaryColumns ==
    {FILE, MODEL, THOUSAND_SEPARATOR_FORMAT, THOUSAND_SEPARATOR_MAJORITY_PCT,
     ORDINAL_STYLE, ORDINAL_MAJORITY_PCT}

\* feat_df[name]
FeatColumn(all_feats, name) == [i \in 1..Len(all_feats) |-> all_feats[i][name]]

\* lines 362-396: the row of one column of one file
SummaryRow(filename, model, all_feats) ==
    LET thousand == get_primary_convention_with_percentage(FeatColumn(all_feats, "thousand_sep_mode"))
        ordinal == get_primary_convention_with_percentage(FeatColumn(all_feats, "ordinal_style"))
    IN  [c \in SummaryColumns |->
            IF c = FILE THEN filename
            ELSE IF c = MODEL THEN model
            ELSE IF c = THOUSAND_SEPARATOR_FORMAT THEN thousand[1]
            ELSE IF c = THOUSAND_SEPARATOR_MAJORITY_PCT THEN thousand[2]
            ELSE IF c = ORDINAL_STYLE THEN ordinal[1]
            ELSE ordinal[2]]

Init ==
    /\ results = <<>>
    /\ last = 0
    /\ pc = "analyze"
    /\ df = <<>>
    /\ columns = {}
    /\ query = NoQuery
    /\ res = NoResult
    /\ series = <<>>
    /\ agg = NoAgg
    /\ sample = <<>>
    /\ order = NoOrder
    /\ text = <<>>
    /\ feats = NoFeats

\* line 353: a column naming no model is passed over
SkipColumn ==
    /\ pc = "analyze"
    /\ \E p \in Positions :
         /\ p > last
         /\ ~IsModelColumn(ColumnAt(p))
         /\ last' = p
    /\ UNCHANGED <<sample, order, text, feats, series, agg, results, pc, df, columns, query, res>>

\* lines 356-398: one column of one file, with at least one sample
ProcessColumn ==
    /\ pc = "analyze"
    /\ Len(results) < MaxGroups
    /\ \E p \in Positions, all_feats \in SeqsUpTo(FeatureRecords, MaxSamples) :
         /\ p > last
         /\ IsModelColumn(ColumnAt(p))
         /\ all_feats # <<>>
         /\ last' = p
         /\ results' = Append(results, SummaryRow(FileAt(p), ModelOf(ColumnAt(p)), all_feats))
    /\ UNCHANGED <<sample, order, text, feats, series, agg, pc, df, columns, query, res>>

\* lines 358-362: a file without samples gives a frame without columns, and
\* feat_df["currency_mode"] raises
ProcessEmptyColumn ==
    /\ pc = "analyze"
    /\ \E p \in Positions :
         /\ p > last
         /\ IsModelColumn(ColumnAt(p))
         /\ last' = p
    /\ pc' = "raised"
    /\ UNCHANGED <<sample, order, text, feats, series, agg, results, df, columns, query, res>>

\* line 400, then pd.read_csv of the file written: the rows as they are, the
\* header of a frame that has rows
SaveSummary ==
    /\ pc = "analyze"
    /\ pc' = "saved"
    /\ df' = results
    /\ columns' = IF results = <<>> THEN {} ELSE SummaryColumns
    /\ UNCHANGED <<sample, order, text, feats, series, agg, results, last, query, res>>

\* get_aggregated_value on the summary read back (an empty file cannot be read)
Query ==
    /\ pc = "saved"
    /\ df # <<>>
    /\ pc' = "queried"
    /\ \E lang_code \in QueryLangs, model_name \in QueryModels, column_name \in FeatureColumns :
         /\ query' = [lang_code |-> lang_code, model_name |-> model_name, column_name |-> column_name]
         /\ res' \in get_aggregated_value(df, columns, lang_code, model_name, column_name, default_values)
    /\ UNCHANGED <<sample, order, text, feats, series, agg, results, last, df, columns>>

Next == SkipColumn \/ ProcessColumn \/ ProcessEmptyColumn \/ SaveSummary \/ Query

Spec == Init /\ [][Next]_vars

\* ------------------------------------------- SpecNormalize: normalize, twice

\* A text is a sequence of code points.  An ASCII code point is written as
\* itself; the others by name: "nbsp" U+00A0, "ordm" U+00BA, "ordf" U+00AA,
\* "uml" U+00A8, "diaer" U+0308, "grave" U+0300, "egrave" U+00E8, "ograve" U+00F2,
\* "fullpct" U+FF05, "euro" U+20AC, "tm" U+2122, "tab" U+0009.

\* a missing value (None, float nan): pd.isna(text) holds
NaN == <<"NaN">>

\* str.isspace
Whitespace == {" ", "tab", "nbsp"}

\* the compatibility decomposition of one code point
Decomposition(c) ==
    CASE c = "nbsp" -> <<" ">>
      [] c = "ordm" -> <<"o">>
      [] c = "ordf" -> <<"a">>
      [] c = "uml" -> <<" ", "diaer">>
      [] c = "fullpct" -> <<"%">>
      [] c = "egrave" -> <<"e", "grave">>
      [] c = "tm" -> <<"T", "M">>
      [] OTHER -> <<c>>

RECURSIVE Decompose(_)
Decompose(t) == IF t = <<>> THEN <<>> ELSE Decomposition(Head(t)) \o Decompose(Tail(t))

\* the canonical composition of a base with the mark that follows it
RECURSIVE Compose(_)
Compose(t) ==
    IF Len(t) < 2 THEN t
    ELSE IF Head(t) = "e" /\ t[2] = "grave" THEN <<"egrave">> \o Compose(Tail(Tail(t)))
    ELSE IF Head(t) = "o" /\ t[2] = "grave" THEN <<"ograve">> \o Compose(Tail(Tail(t)))
    ELSE <<Head(t)>> \o Compose(Tail(t))

\* unicodedata.normalize("NFKC", text)
NFKC(t) == Compose(Decompose(t))

\* text.replace(NBSP, " ")
ReplaceNbsp(t) == [i \in 1..Len(t) |-> IF t[i] = "nbsp" THEN " " ELSE t[i]]

\* text.strip()
Strip(t) ==
    LET kept == {i \in 1..Len(t) : t[i] \notin Whitespace}
    IN IF kept = {} THEN <<>>
       ELSE SubSeq(t, CHOOSE i \in kept : \A j \in kept : i <= j,
                      CHOOSE i \in kept : \A j \in kept : j <= i)

\* normalize with the whitespace stripped before the Unicode normalization
NormalizeStripFirst(t) ==
    IF t = NaN THEN <<>> ELSE ReplaceNbsp(NFKC(Strip(t)))

\* normalize(text)
normalize(t) ==
    IF t = NaN THEN <<>> ELSE Strip(ReplaceNbsp(NFKC(t)))

\* the longest raw sample of SpecNormalize
MaxChars == 3

\* the code points the raw samples of SpecNormalize are made of
RawCodePoints == {" ", "nbsp", "uml", "e", "grave", "egrave", "ordm", "fullpct", "3"}

\* a code point of a Python str
CodePoints == RawCodePoints \cup {"o", "ograve", "%", "diaer"}

RawSamples == SeqsUpTo(RawCodePoints, MaxChars) \cup {NaN}

InitNormalize ==
    /\ pc = "normalize"
    /\ sample \in RawSamples
    /\ text = <<>>
    /\ order = NoOrder
    /\ feats = NoFeats
    /\ series = <<>>
    /\ agg = NoAgg
    /\ results = <<>>
    /\ last = 0
    /\ df = <<>>
    /\ columns = {}
    /\ query = NoQuery
    /\ res = NoResult

\* the call of detect (line 169)
Normalize ==
    /\ pc = "normalize"
    /\ text' = normalize(sample)
    /\ pc' = "normalized"
    /\ UNCHANGED <<sample, order, feats, series, agg, results, last, df, columns, query, res>>

\* the call of a sub-detector on the text detect has normalized (line 267)
NormalizeAgain ==
    /\ pc = "normalized"
    /\ text' = normalize(text)
    /\ pc' = "renormalized"
    /\ UNCHANGED <<sample, order, feats, series, agg, results, last, df, columns, query, res>>

NextNormalize == Normalize \/ NormalizeAgain

SpecNormalize == InitNormalize /\ [][NextNormalize]_vars

\* --------------------------------------------------- the re module, as used

\* str.isdigit, \d
Digits == {"0", "1", "2", "3", "4", "5", "6", "7", "8", "9"}

LowerCase == <<"a", "b", "c", "d", "e", "f", "g", "h", "i", "j", "k", "l", "m",
               "n", "o", "p", "q", "r", "s", "t", "u", "v", "w", "x", "y", "z">>

UpperCase == <<"A", "B", "C", "D", "E", "F", "G", "H", "I", "J", "K", "L", "M",
               "N", "O", "P", "Q", "R", "S", "T", "U", "V", "W", "X", "Y", "Z">>

Range(f) == {f[i] : i \in DOMAIN f}

\* the code points c with c.isupper()
Capitals == Range(UpperCase)

\* the code points c with c.isalpha()
Alphabetic == Range(LowerCase) \cup Capitals \cup {"egrave", "eacute", "ograve", "ordm", "ordf"}

\* the code points \w matches
WordChars == Alphabetic \cup Digits \cup {"_"}

IsUpper(c) == c \in Capitals

IsAlpha(c) == c \in Alphabetic

IsWord(c) == c \in WordChars

\* the code points from lo to hi of the ASCII punctuation and capitals:
\* U+002C , U+002D - U+002E . U+003A : U+003B ; U+003F ? U+0040 @
\* U+0041..U+005A A..Z U+005B [ U+005C \ U+005D ] U+005E ^ U+005F _
Ascii == <<",", "-", ".", ":", ";", "?", "@">> \o UpperCase \o <<"[", "\\", "]", "^", "_">>

\* the class range lo-hi
Between(lo, hi) ==
    LET at(c) == CHOOSE k \in DOMAIN Ascii : Ascii[k] = c
    IN {Ascii[k] : k \in at(lo)..at(hi)}

\* re.I: the text with each capital replaced by its small letter
IgnoreCase(t) ==
    [i \in 1..Len(t) |->
        IF IsUpper(t[i]) THEN LowerCase[CHOOSE k \in 1..26 : UpperCase[k] = t[i]] ELSE t[i]]

\* the pattern syntax
Chr(S) == [op |-> "chr", set |-> S]
Str(w) == [op |-> "str", str |-> w]
Cat(rs) == [op |-> "cat", args |-> rs]
Alt(rs) == [op |-> "alt", args |-> rs]
Rep(r, lo, hi) == [op |-> "rep", arg |-> r, lo |-> lo, hi |-> hi]
Wb == [op |-> "wb"]

\* r+  r?  r*  (hi = -1: no upper limit)
Plus(r) == Rep(r, 1, -1)
Opt(r) == Rep(r, 0, 1)
Star(r) == Rep(r, 0, -1)

\* word1|word2|... in the order of the sequence
Words(ws) == Alt([k \in 1..Len(ws) |-> Str(ws[k])])

\* Ends(r, t, i): where a match of r that starts at position i of t can end
\* (the position after its last code point), in the order the backtracking
\* matcher tries them: earlier alternatives first, longer repetitions first.
RECURSIVE Ends(_, _, _), SeqEnds(_, _, _), SeqFrom(_, _, _), AltEnds(_, _, _)
RECURSIVE RepEnds(_, _, _, _, _), RepFrom(_, _, _, _, _)

SeqFrom(es, rs, t) ==
    IF es = <<>> THEN <<>> ELSE SeqEnds(rs, t, Head(es)) \o SeqFrom(Tail(es), rs, t)

SeqEnds(rs, t, i) ==
    IF rs = <<>> THEN <<i>> ELSE SeqFrom(Ends(Head(rs), t, i), Tail(rs), t)

AltEnds(rs, t, i) ==
    IF rs = <<>> THEN <<>> ELSE Ends(Head(rs), t, i) \o AltEnds(Tail(rs), t, i)

RepFrom(es, r, lo, hi, t) ==
    IF es = <<>> THEN <<>>
    ELSE RepEnds(r, lo, hi, t, Head(es)) \o RepFrom(Tail(es), r, lo, hi, t)

RepEnds(r, lo, hi, t, i) ==
    (IF hi > 0 THEN RepFrom(Ends(r, t, i), r, lo - 1, hi - 1, t) ELSE <<>>)
    \o (IF lo <= 0 THEN <<i>> ELSE <<>>)

Ends(r, t, i) ==
    CASE r.op = "chr" -> IF i <= Len(t) /\ t[i] \in r.set THEN <<i + 1>> ELSE <<>>
      [] r.op = "str" ->
            IF i + Len(r.str) - 1 <= Len(t) /\ SubSeq(t, i, i + Len(r.str) - 1) = r.str
            THEN <<i + Len(r.str)>> ELSE <<>>
      [] r.op = "wb" ->
            IF (i > 1 /\ IsWord(t[i - 1])) # (i <= Len(t) /\ IsWord(t[i])) THEN <<i>> ELSE <<>>
      [] r.op = "cat" -> SeqEnds(r.args, t, i)
      [] r.op = "alt" -> AltEnds(r.args, t, i)
      [] r.op = "rep" -> RepEnds(r.arg, r.lo, IF r.hi < 0 THEN Len(t) ELSE r.hi, t, i)

\* bool(pattern.search(text))
Search(r, t) == \E i \in 1..(Len(t) + 1) : Ends(r, t, i) # <<>>

\* len(pattern.findall(text)): the matches are taken leftmost first, each as
\* the matcher's first choice, and the scan resumes where the match ended
RECURSIVE CountFrom(_, _, _)
CountFrom(r, t, i) ==
    IF i > Len(t) + 1 THEN 0
    ELSE LET es == Ends(r, t, i)
         IN IF es = <<>> THEN CountFrom(r, t, i + 1)
            ELSE 1 + CountFrom(r, t, IF Head(es) = i THEN i + 1 ELSE Head(es))

FindAll(r, t) == CountFrom(r, t, 1)

\* ------------------------------------------------------------ the lexicons

\* Of each lexicon the model keeps the words that occur in the samples of its
\* specifications; a word that occurs in no sample matches nowhere.

\* NUMBER_WORDS_FULL_SET - AMBIGUOUS_NUMBER_WORDS, a set
NUMBER_WORDS ==
    {<<"v", "i", "n", "g", "t">>,
     <<"c", "e", "n", "t">>,
     <<"m", "i", "l">>,
     <<"m", "i", "l", "l", "o", "n", "e", "s">>,
     <<"m", "i", "l", " ", "m", "i", "l", "l", "o", "n", "e", "s">>}

\* ORDINAL_WORDS, a set
ORDINAL_WORDS == {<<"p", "r", "e", "m", "i", "e", "r">>, <<"q", "u", "i", "n", "t", "o">>}

\* the lists, in the order they are written
CURRENCY_WORDS == <<<<"e", "u", "r", "o">>, <<"e", "u", "r", "o", "s">>>>

UNIT_SHORT == <<<<"k", "m">>, <<"m">>, <<"k", "g">>, <<"g">>>>

UNIT_LONG == <<<<"m", "e", "t", "r", "o">>, <<"g", "r", "a", "m", "m", "e">>>>

MONTH_WORDS == <<<<"m", "a", "i">>, <<"j", "u", "i", "n">>>>

HESITATIONS == <<<<"e", "u", "h">>, <<"e", "h">>, <<"h", "m">>>>

\* the orders in which iterating a set can yield its members
Orderings(S) == {o \in [1..Cardinality(S) -> S] : \A i, j \in DOMAIN o : o[i] = o[j] => i = j}

\* "|".join(NUMBER_WORDS) and "|".join(ORDINAL_WORDS), evaluated once at import
Orders == [number : Orderings(NUMBER_WORDS), ordinal : Orderings(ORDINAL_WORDS)]

\* the same sets, enumerated from the last member to the first
Opposite(o) ==
    [number |-> [k \in 1..Len(o.number) |-> o.number[Len(o.number) + 1 - k]],
     ordinal |-> [k \in 1..Len(o.ordinal) |-> o.ordinal[Len(o.ordinal) + 1 - k]]]

\* ------------------------------------------- structural regular expressions

Digit == Chr(Digits)

\* \s
Space == Chr(Whitespace)

RE_THOUSAND_SPACE ==
    Cat(<<Wb, Rep(Digit, 1, 3), Plus(Cat(<<Str(<<" ">>), Rep(Digit, 3, 3)>>)), Wb>>)

RE_THOUSAND_DOT ==
    Cat(<<Wb, Rep(Digit, 1, 3), Plus(Cat(<<Str(<<".">>), Rep(Digit, 3, 3)>>)), Wb>>)

RE_THOUSAND_COMMA ==
    Cat(<<Wb, Rep(Digit, 1, 3), Plus(Cat(<<Str(<<",">>), Rep(Digit, 3, 3)>>)), Wb>>)

RE_PERCENT_SPACE == Cat(<<Plus(Digit), Str(<<" ", "%">>)>>)

RE_PERCENT_NO_SPACE == Cat(<<Plus(Digit), Str(<<"%">>)>>)

RE_PERCENT_WORD ==
    Cat(<<Wb, Words(<<<<"p", "o", "u", "r", " ", "c", "e", "n", "t">>,
               <<"p", "o", "r", " ", "c", "i", "e", "n", "t", "o">>,
               <<"p", "o", "r", " ", "c", "e", "n", "t", "o">>,
               <<"p", "r", "o", "z", "e", "n", "t">>>>), Wb>>)

\* \d+(e|ème|º|ª|th|st|nd|rd)\b
RE_ORDINAL_DIGIT ==
    Cat(<<Plus(Digit), Words(<<<<"e">>, <<"egrave", "m", "e">>, <<"ordm">>, <<"ordf">>, <<"t", "h">>, <<"s", "t">>, <<"n", "d">>, <<"r", "d">>>>), Wb>>)

\* \b(w1|w2|...)(e|es|s|a|as|er)?\b, the words in the order the set gave them
RE_ORDINAL_WORD(ordinal) ==
    Cat(<<Wb, Words(ordinal), Opt(Words(<<<<"e">>, <<"e", "s">>, <<"s">>, <<"a">>, <<"a", "s">>, <<"e", "r">>>>)), Wb>>)

\* the class [,;:!?-_.]: four code points, the range from ? to _, the full stop
RE_PUNCT == Chr({",", ";", ":", "!"} \cup Between("?", "_") \cup {"."})

\* \d+(?:[.,]\d+)?
RE_DIGIT_NUMBER == Cat(<<Plus(Digit), Opt(Cat(<<Chr({".", ","}), Plus(Digit)>>))>>)

\* \b(w1|w2|...)\b, the words in the order the set gave them
RE_WORD_NUMBER(number) == Cat(<<Wb, Words(number), Wb>>)

RE_QUANTITY(number) == Alt(<<RE_DIGIT_NUMBER, RE_WORD_NUMBER(number)>>)

RE_UNIT_WITH_QUANTITY(number) ==
    Cat(<<RE_QUANTITY(number), Star(Space), Wb, Words(UNIT_SHORT), Wb>>)

RE_UNIT_LONG == Cat(<<Wb, Words(UNIT_LONG), Opt(Words(<<<<"s">>, <<"e", "s">>, <<"e", "n">>>>)), Wb>>)

RE_CURRENCY_SYMBOL == Chr({"euro", "$", "pound", "yen", "rupee", "ruble", "lira", "cent", "won"})

RE_CURRENCY_WORD == Cat(<<Wb, Words(CURRENCY_WORDS), Wb>>)

RE_CURRENCY_PATTERN(number) == Cat(<<RE_QUANTITY(number), Star(Space), RE_CURRENCY_WORD>>)

\* (?:0?[1-9]|[12][0-9]|3[01])
DayOfMonth ==
    Alt(<<Cat(<<Opt(Str(<<"0">>)), Chr(Digits \ {"0"})>>),
          Cat(<<Chr({"1", "2"}), Digit>>),
          Cat(<<Str(<<"3">>), Chr({"0", "1"})>>)>>)

\* (?:0?[1-9]|1[0-2])
MonthNumber ==
    Alt(<<Cat(<<Opt(Str(<<"0">>)), Chr(Digits \ {"0"})>>),
          Cat(<<Str(<<"1">>), Chr({"0", "1", "2"})>>)>>)

RE_DATE_DD_MM_YYYY ==
    Cat(<<Wb, DayOfMonth, Chr({"/", "."}), MonthNumber, Chr({"/", "."}), Rep(Digit, 4, 4), Wb>>)

\* \b\d{4}-(?:0[1-9]|1[0-2])-(?:0[1-9]|[12][0-9]|3[01])\b
RE_DATE_YYYY_MM_DD ==
    Cat(<<Wb, Rep(Digit, 4, 4), Str(<<"-">>),
          Alt(<<Cat(<<Str(<<"0">>), Chr(Digits \ {"0"})>>),
                Cat(<<Str(<<"1">>), Chr({"0", "1", "2"})>>)>>),
          Str(<<"-">>),
          Alt(<<Cat(<<Str(<<"0">>), Chr(Digits \ {"0"})>>),
                Cat(<<Chr({"1", "2"}), Digit>>),
                Cat(<<Str(<<"3">>), Chr({"0", "1"})>>)>>),
          Wb>>)

RE_DATE_DD_MONTH_YYYY ==
    Cat(<<Wb, DayOfMonth, Plus(Space), Words(MONTH_WORDS), Plus(Space), Rep(Digit, 4, 4), Wb>>)

\* \b + each letter of the hesitation followed by + and \b
HESITATION_PATTERNS ==
    [k \in 1..Len(HESITATIONS) |->
        Cat(<<Wb>> \o [j \in 1..Len(HESITATIONS[k]) |-> Plus(Str(<<HESITATIONS[k][j]>>))] \o <<Wb>>)]

\* ------------------------------------------------------------------- detect

\* detect_ordinal_style with the word pattern tried before the digit pattern
OrdinalWordFirst(t, ordinal) ==
    LET text_ == normalize(t)
    IN IF Search(RE_ORDINAL_WORD(ordinal), IgnoreCase(text_)) THEN "word"
       ELSE IF Search(RE_ORDINAL_DIGIT, IgnoreCase(text_)) THEN "digit_suffix"
       ELSE None

detect_ordinal_style(t, ordinal) ==
    LET text_ == normalize(t)
    IN IF Search(RE_ORDINAL_DIGIT, IgnoreCase(text_)) THEN "digit_suffix"
       ELSE IF Search(RE_ORDINAL_WORD(ordinal), IgnoreCase(text_)) THEN "word"
       ELSE None

detect_number_style(t, number) ==
    LET text_ == normalize(t)
        has_digit == Search(Plus(Digit), text_)
        has_word_number == Search(RE_WORD_NUMBER(number), IgnoreCase(text_))
        digit_count == FindAll(Plus(Digit), text_)
        word_count == FindAll(RE_WORD_NUMBER(number), IgnoreCase(text_))
    IN IF has_digit /\ ~has_word_number THEN "digit"
       ELSE IF has_word_number /\ ~has_digit THEN "word"
       ELSE IF has_digit /\ has_word_number
            THEN (IF digit_count >= word_count THEN "digit" ELSE "word")
       ELSE None

\* the counts of detect_date_style, in the order the dict holds them
DateForms == <<"dd/mm/yyyy", "yyyy-mm-dd", "dd_month_yyyy">>

DateCounts(t) ==
    <<FindAll(RE_DATE_DD_MM_YYYY, t), FindAll(RE_DATE_YYYY_MM_DD, t),
      FindAll(RE_DATE_DD_MONTH_YYYY, IgnoreCase(t))>>

\* max(counts, key=counts.get) returning the last of the largest
MaxLast(counts) ==
    DateForms[CHOOSE k \in 1..3 :
        /\ \A j \in 1..3 : counts[j] <= counts[k]
        /\ \A j \in (k + 1)..3 : counts[j] < counts[k]]

\* max(counts, key=counts.get): the first key, in insertion order, of the largest count
MaxFirst(counts) ==
    DateForms[CHOOSE k \in 1..3 :
        /\ \A j \in 1..3 : counts[j] <= counts[k]
        /\ \A j \in 1..(k - 1) : counts[j] < counts[k]]

detect_date_style(t) ==
    LET text_ == normalize(t)
        counts == DateCounts(text_)
    IN IF counts[1] + counts[2] + counts[3] = 0 THEN None ELSE MaxFirst(counts)

\* the capitals counted and not divided by the letters
UppercaseCount(t) == <<Cardinality({i \in 1..Len(t) : IsUpper(t[i])}), 1>>

\* sum(c.isupper() for c in letters)/len(letters) if letters else 0
Uppercase(t) ==
    LET letters == {i \in 1..Len(t) : IsAlpha(t[i])}
    IN IF letters = {} THEN Zero
       ELSE Div(Cardinality({i \in letters : IsUpper(t[i])}), Cardinality(letters))

detect(t, o) ==
    LET text_ == normalize(t)
    IN [percent_mode |->
            IF Search(RE_PERCENT_SPACE, text_) THEN "symbol_space"
            ELSE IF Search(RE_PERCENT_NO_SPACE, text_) THEN "symbol_no_space"
            ELSE IF Search(RE_PERCENT_WORD, IgnoreCase(text_)) THEN "word"
            ELSE None,
        currency_mode |->
            IF Search(RE_CURRENCY_SYMBOL, text_) THEN "symbol"
            ELSE IF Search(RE_CURRENCY_PATTERN(o.number), IgnoreCase(text_)) THEN "word"
            ELSE None,
        thousand_sep_mode |->
            IF Search(RE_THOUSAND_SPACE, text_) THEN "space"
            ELSE IF Search(RE_THOUSAND_DOT, text_) THEN "dot"
            ELSE IF Search(RE_THOUSAND_COMMA, text_) THEN "comma"
            ELSE None,
        unit_mode |->
            IF Search(RE_UNIT_WITH_QUANTITY(o.number), IgnoreCase(text_)) THEN "short"
            ELSE IF Search(RE_UNIT_LONG, IgnoreCase(text_)) THEN "long"
            ELSE None,
        ordinal_style |-> detect_ordinal_style(text_, o.ordinal),
        number_style |-> detect_number_style(text_, o.number),
        hesitation_plain |->
            \E k \in DOMAIN HESITATION_PATTERNS : Search(HESITATION_PATTERNS[k], IgnoreCase(text_)),
        punctuation |-> Search(RE_PUNCT, text_),
        uppercase |-> Uppercase(text_),
        date_format |-> detect_date_style(text_)]

\* ------------------------------------------------------- SpecDetect: detect

\* the most pieces in a sample
MaxPieces == 2

\* the pieces the samples of SpecDetect are made of, by the feature they bear on
PercentPieces == {<<"2", "0", " ", "%">>, <<"2", "0", "%">>, <<"v", "i", "n", "g", "t", " ", "p", "o", "u", "r", " ", "c", "e", "n", "t">>}

CurrencyPieces == {<<"euro">>, <<"2", " ", "e", "u", "r", "o", "s">>}

ThousandPieces == {<<"1", " ", "0", "0", "0">>, <<"1", ".", "0", "0", "0">>, <<"1", ",", "0", "0", "0">>}

UnitPieces == {<<"5", " ", "k", "g">>, <<"m", "e", "t", "r", "o">>}

OrdinalPieces == {<<"2", "egrave", "m", "e">>, <<"p", "r", "e", "m", "i", "e", "r">>}

NumberPieces == {<<"1">>, <<"m", "i", "l", " ", "m", "i", "l", "l", "o", "n", "e", "s">>, <<"5", "/", "6", "/", "2", "0", "2", "3">>}

StylePieces == {<<"P", "a", "r", "i", "s">>, <<"-">>, <<"e", "u", "h", ",">>, <<"tm">>}

Families ==
    {PercentPieces, CurrencyPieces, ThousandPieces, UnitPieces, OrdinalPieces, NumberPieces,
     StylePieces}

\* the pieces, one space between two of them
RECURSIVE Join(_)
Join(ps) ==
    IF ps = <<>> THEN <<>>
    ELSE IF Len(ps) = 1 THEN ps[1]
    ELSE ps[1] \o <<" ">> \o Join(Tail(ps))

\* the texts of up to MaxPieces pieces of P
TextsOf(P) == {Join(ps) : ps \in SeqsUpTo(P, MaxPieces)}

\* those in which no piece comes twice
DistinctTextsOf(P) ==
    {Join(ps) : ps \in {qs \in SeqsUpTo(P, MaxPieces) :
                            \A i, j \in DOMAIN qs : qs[i] = qs[j] => i = j}}

\* a sample is missing, or a text of distinct pieces of one family
DetectSamples == UNION {DistinctTextsOf(F) : F \in Families} \cup {NaN}

InitDetect ==
    /\ pc = "detect"
    /\ sample \in DetectSamples
    /\ order \in Orders
    /\ text = <<>>
    /\ feats = NoFeats
    /\ series = <<>>
    /\ agg = NoAgg
    /\ results = <<>>
    /\ last = 0
    /\ df = <<>>
    /\ columns = {}
    /\ query = NoQuery
    /\ res = NoResult

\* feats = detect(text)
Detect ==
    /\ pc = "detect"
    /\ text' = normalize(sample)
    /\ feats' = detect(sample, order)
    /\ pc' = "detected"
    /\ UNCHANGED <<sample, order, series, agg, results, last, df, columns, query, res>>

NextDetect == Detect

SpecDetect == InitDetect /\ [][NextDetect]_vars

\* --------------------------------------- SpecOrdinal: detect_ordinal_style

\* the digit forms the source names (lines 113 and 263)
OrdinalForms ==
    {<<"1", "e", "r">>, <<"2", "egrave", "m", "e">>, <<"9", "e">>, <<"5", "t", "h">>, <<"3", "r", "d">>, <<"3", "ordm">>}

\* the pieces the samples of SpecOrdinal are made of
OrdinalSamplePieces == OrdinalForms \cup {<<"p", "r", "e", "m", "i", "e", "r">>}

InitOrdinal ==
    /\ pc = "ordinal"
    /\ sample \in TextsOf(OrdinalSamplePieces)
    /\ order \in [number : {<<>>}, ordinal : Orderings(ORDINAL_WORDS)]
    /\ text = <<>>
    /\ feats = NoFeats
    /\ series = <<>>
    /\ agg = NoAgg
    /\ results = <<>>
    /\ last = 0
    /\ df = <<>>
    /\ columns = {}
    /\ query = NoQuery
    /\ res = NoResult

\* detect_ordinal_style(text)
DetectOrdinalStyle ==
    /\ pc = "ordinal"
    /\ text' = normalize(sample)
    /\ feats' = [feats EXCEPT !.ordinal_style = detect_ordinal_style(sample, order.ordinal)]
    /\ pc' = "ordinal_detected"
    /\ UNCHANGED <<sample, order, series, agg, results, last, df, columns, query, res>>

NextOrdinal == DetectOrdinalStyle

SpecOrdinal == InitOrdinal /\ [][NextOrdinal]_vars

\* --------------------------------------------- SpecDate: detect_date_style

\* the pieces the samples of SpecDate are made of: dates of the three forms,
\* one or two in a piece, and a date with no such month
DatePieces ==
    {<<"5", "/", "6", "/", "2", "0", "2", "3">>,
     <<"3", "1", ".", "0", "1", ".", "1", "8", "8", "7">>,
     <<"2", "0", "2", "4", "-", "1", "1", "-", "2", "5">>,
     <<"2", "0", "2", "4", "-", "0", "1", "-", "0", "2", " ", "2", "0", "2", "4", "-", "0", "1", "-", "0", "3">>,
     <<"5", " ", "m", "a", "i", " ", "2", "0", "2", "4">>,
     <<"5", " ", "j", "u", "i", "n", " ", "2", "0", "2", "4", " ", "6", " ", "J", "u", "i", "n", " ", "2", "0", "2", "4">>,
     <<"2", "0", "2", "4", "-", "1", "3", "-", "0", "1">>}

InitDate ==
    /\ pc = "date"
    /\ sample \in TextsOf(DatePieces)
    /\ order = NoOrder
    /\ text = <<>>
    /\ feats = NoFeats
    /\ series = <<>>
    /\ agg = NoAgg
    /\ results = <<>>
    /\ last = 0
    /\ df = <<>>
    /\ columns = {}
    /\ query = NoQuery
    /\ res = NoResult

\* detect_date_style(text)
DetectDateStyle ==
    /\ pc = "date"
    /\ text' = normalize(sample)
    /\ feats' = [feats EXCEPT !.date_format = detect_date_style(sample)]
    /\ pc' = "date_detected"
    /\ UNCHANGED <<sample, order, series, agg, results, last, df, columns, query, res>>

NextDate == DetectDateStyle

SpecDate == InitDate /\ [][NextDate]_vars

\* ------------------------------------------------- properties: the aggregator

\* the positions of the series holding an observation
Present == {i \in 1..Len(series) : series[i] # None}

\* how many observations of the series are v
Occurrences(v) == Cardinality({i \in Present : series[i] = v})

\* C8: absent observations are ignored; with none left the result is
\* ("not_detected", 0.0); otherwise it is a value of maximal count among the
\* observations left, with that count divided by their number, a share in (0,1]
C8_AggregateMajorityShare ==
    pc = "aggregated" =>
        IF Present = {}
        THEN agg = <<"not_detected", <<0, 1>>>>
        ELSE /\ \E i \in Present : series[i] = agg[1]
             /\ \A i \in Present : Occurrences(series[i]) <= Occurrences(agg[1])
             /\ agg[2][1] * Cardinality(Present) = Occurrences(agg[1]) * agg[2][2]
             /\ 0 < agg[2][1] /\ agg[2][1] <= agg[2][2]

\* ["dot", absent, "dot", "comma"] gives ("dot", 2/3)
C8_Witness ==
    /\ pc = "aggregated"
    /\ series = <<"dot", None, "dot", "comma">>
    /\ agg = <<"dot", <<2, 3>>>>

\* C9: among the values that share the maximal count, the one returned is the
\* one whose first occurrence comes first in the series
C9_TieFirstEncountered ==
    (pc = "aggregated" /\ Present # {}) =>
        \A i \in Present :
            Occurrences(series[i]) = Occurrences(agg[1]) =>
                \E k \in Present : k <= i /\ series[k] = agg[1]

\* "comma" and "dot" both occur twice, "dot" reaches two first, "comma" occurs first
C9_Witness ==
    /\ pc = "aggregated"
    /\ series = <<"comma", "dot", "dot", "comma">>
    /\ agg[1] = "comma"

\* --------------------------------------------------- properties: the resolver

\* the call returned or raised
Resolved == pc \in {"resolved", "queried"}

\* the requested feature is a column of the table
KnownFeature == {FILE, MODEL, query.column_name} \subseteq columns

\* the rows of the table in each scope
AllRows == 1..Len(df)
LangRows == {i \in AllRows : Contains(df[i][FILE], <<"_">> \o query.lang_code \o <<"_">>)}
ModelRows == {i \in AllRows : df[i][MODEL] = query.model_name}

\* the rows of a scope holding a detected value of the requested feature
DetectedIn(scope) == {i \in scope : df[i][query.column_name] # "not_detected"}

\* the default of the requested feature
DefaultOutcome ==
    [raised |-> FALSE,
     value |-> IF query.column_name = THOUSAND_SEPARATOR_FORMAT THEN "dot" ELSE "word",
     confidence |-> <<0, 1>>, source |-> "default"]

\* C1 as claimed: any row of the language and the model holding a detected
\* value is the result, with source "language_model"
C1_AnyMatchingRowWins ==
    (Resolved /\ KnownFeature) =>
        \A i \in DetectedIn(LangRows \cap ModelRows) :
            /\ res.raised = FALSE
            /\ res.source = "language_model"
            /\ res.value = df[i][query.column_name]

\* C2: with no detected value in a row of both the language and the model, the
\* source is the first of language_majority, model_majority, global_majority
\* whose scope holds a detected value, and default when none does; default is
\* returned only when no row of the table holds a detected value
C2_StrictFallbackOrder ==
    (Resolved /\ KnownFeature) =>
        /\ res.raised = FALSE
        /\ DetectedIn(LangRows \cap ModelRows) = {} =>
             res.source = IF DetectedIn(LangRows) # {} THEN "language_majority"
                          ELSE IF DetectedIn(ModelRows) # {} THEN "model_majority"
                          ELSE IF DetectedIn(AllRows) # {} THEN "global_majority"
                          ELSE "default"
        /\ res.source = "default" => DetectedIn(AllRows) = {}

\* the language rows hold nothing detected, the model rows do
C2_Witness ==
    /\ Resolved /\ KnownFeature
    /\ LangRows # {} /\ DetectedIn(LangRows) = {}
    /\ DetectedIn(ModelRows) # {}
    /\ res.source = "model_majority"

\* C3 as claimed: a language and a model that occur in no row give the default
C3_AbsentGivesDefault ==
    (Resolved /\ KnownFeature /\ LangRows = {} /\ ModelRows = {}) => res = DefaultOutcome

\* C3 amended: a language and a model that occur in no row give the global
\* majority when some row holds a detected value, and the default only
\* when none does
C3_AbsentGivesGlobalOrDefault ==
    (Resolved /\ KnownFeature /\ LangRows = {} /\ ModelRows = {}) =>
        IF DetectedIn(AllRows) # {}
        THEN /\ res.raised = FALSE
             /\ res.source = "global_majority"
             /\ \E i \in DetectedIn(AllRows) : res.value = df[i][query.column_name]
        ELSE res = DefaultOutcome

C3_Witness ==
    /\ Resolved /\ KnownFeature /\ LangRows = {} /\ ModelRows = {}
    /\ DetectedIn(AllRows) # {}
    /\ res.source = "global_majority"

\* C4: a feature that is no column of the table always fails
C4_UnknownFeatureFails ==
    (Resolved /\ query.column_name \notin columns) => res.raised = TRUE

\* the table has rows, none of the language or the model, and lacks the feature
C4_Witness ==
    /\ Resolved
    /\ {FILE, MODEL} \subseteq columns /\ query.column_name \notin columns
    /\ df # <<>> /\ LangRows = {} /\ ModelRows = {}
    /\ res.raised = TRUE

\* C5 as claimed: a table with no rows, or without the feature's column, gives
\* the default
C5_EmptyOrMissingGivesDefault ==
    (Resolved /\ (df = <<>> \/ query.column_name \notin columns)) => res = DefaultOutcome

\* C5 amended: a table with no rows whose header holds the file, model and
\* feature columns gives the default for every query
C5_EmptyGivesDefault ==
    (Resolved /\ KnownFeature /\ df = <<>>) => res = DefaultOutcome

C5_Witness ==
    /\ Resolved /\ KnownFeature /\ df = <<>>
    /\ query.lang_code = <<"fr">> /\ query.model_name = "whisper"
    /\ res.source = "default"

\* the scope of a majority level
ScopeOf(source) ==
    IF source = "language_majority" THEN LangRows
    ELSE IF source = "model_majority" THEN ModelRows
    ELSE AllRows

\* how many rows of a scope hold v
Holding(scope, v) == Cardinality({i \in scope : df[i][query.column_name] = v})

\* C6: at a majority level the value is a most frequent detected value of the
\* level's scope, and the confidence is its count over the number of detected
\* values of the scope, a share in (0,1]
C6_MajorityValueAndShare ==
    (Resolved /\ res.source \in {"language_majority", "model_majority", "global_majority"}) =>
        LET scope == ScopeOf(res.source)
        IN  /\ res.value # "not_detected"
            /\ Holding(scope, res.value) > 0
            /\ \A i \in DetectedIn(scope) :
                 Holding(scope, df[i][query.column_name]) <= Holding(scope, res.value)
            /\ res.confidence[1] * Cardinality(DetectedIn(scope))
                 = Holding(scope, res.value) * res.confidence[2]
            /\ 0 < res.confidence[1] /\ res.confidence[1] <= res.confidence[2]

\* two of three language rows are detected and differ: the share is 1/2, not 1/3
C6_Witness ==
    /\ Resolved /\ res.source = "language_majority"
    /\ Cardinality(LangRows) = 3 /\ Cardinality(DetectedIn(LangRows)) = 2
    /\ res.confidence = <<1, 2>>

\* --------------------------------------------- properties: the summary table

\* the share column analyze writes beside a feature column
ShareColumn(c) ==
    IF c = THOUSAND_SEPARATOR_FORMAT THEN THOUSAND_SEPARATOR_MAJORITY_PCT ELSE ORDINAL_MAJORITY_PCT

\* C7: over a summary made by analyze, a result has one of the five sources, a
\* confidence in [0,1] that is 0 at the default level, and a detected value at
\* every other level; at the language_model level the value and the
\* confidence are those the first row of the language and the model stores
\* for the feature
C7_ResultShape ==
    pc = "queried" =>
        /\ res.raised = FALSE
        /\ res.source \in {"language_model", "language_majority", "model_majority",
                           "global_majority", "default"}
        /\ 0 <= res.confidence[1] /\ res.confidence[1] <= res.confidence[2]
        /\ res.source = "default" => res.confidence = <<0, 1>>
        /\ res.source # "default" => res.value # "not_detected"
        /\ res.source = "language_model" =>
             \E i \in LangRows \cap ModelRows :
                /\ \A j \in LangRows \cap ModelRows : i <= j
                /\ res.value = df[i][query.column_name]
                /\ res.confidence = df[i][ShareColumn(query.column_name)]
                /\ res.confidence[1] > 0

\* the matched row stores "dot" with share 1/2
C7_Witness ==
    /\ pc = "queried"
    /\ res.source = "language_model"
    /\ res.value = "dot"
    /\ res.confidence = <<1, 2>>

\* C10 as claimed: no two rows of the summary share both file and model
C10_OneRowPerFileAndModel ==
    \A i, j \in 1..Len(results) :
        (results[i][FILE] = results[j][FILE] /\ results[i][MODEL] = results[j][MODEL]) => i = j

\* ------------------------------------------------- properties: normalize

\* C15: normalize is defined on every input, the missing value included, and
\* applying it to its own result changes nothing: the text a sub-detector
\* normalizes again is the text detect has normalized.
C15_NormalizeIdempotent ==
    [][pc = "normalized" => text' \in Seq(CodePoints) /\ text' = text]_vars

\* normalize changed a present sample, and has been applied to its own result
C15_Witness ==
    /\ pc = "renormalized"
    /\ sample # NaN
    /\ text # sample
    /\ text # <<>>

\* ---------------------------------------------------- properties: detect

\* C16: the record detect returns depends on the sample only, not on the
\* order in which the lexicon sets were enumerated when the patterns were
\* built: with the sets enumerated in the opposite order detect returns the
\* record it returned.
C16_DetectIndependentOfOrder ==
    pc = "detected" => detect(sample, Opposite(order)) = feats

\* the punctuation characters the guidelines list: ? ! : . , ; - _
ListedPunctuation == {",", ";", ":", "!", "?", "-", "_", "."}

\* C18: punctuation is true exactly when the normalized sample holds one of
\* the characters , ; : ! ? - _ . : letters, digits and spaces do not make it
\* true, and a hyphen does.
C18_PunctuationIffListed ==
    pc = "detected" =>
        (feats.punctuation <=> \E i \in 1..Len(text) : text[i] \in ListedPunctuation)

\* the record of a sample in which nothing is detected
NothingDetected ==
    [percent_mode |-> None, currency_mode |-> None, thousand_sep_mode |-> None,
     unit_mode |-> None, ordinal_style |-> None, number_style |-> None,
     hesitation_plain |-> FALSE, punctuation |-> FALSE, uppercase |-> Zero,
     date_format |-> None]

\* the record holds the ten fields, each with a value of its feature
FullyPopulated ==
    /\ DOMAIN feats = DOMAIN NothingDetected
    /\ feats.percent_mode \in {"symbol_space", "symbol_no_space", "word", None}
    /\ feats.currency_mode \in {"symbol", "word", None}
    /\ feats.thousand_sep_mode \in {"space", "dot", "comma", None}
    /\ feats.unit_mode \in {"short", "long", None}
    /\ feats.ordinal_style \in {"digit_suffix", "word", None}
    /\ feats.number_style \in {"digit", "word", None}
    /\ feats.date_format \in {"dd/mm/yyyy", "yyyy-mm-dd", "dd_month_yyyy", None}
    /\ feats.hesitation_plain \in BOOLEAN
    /\ feats.punctuation \in BOOLEAN
    /\ 0 <= feats.uppercase[1]
    /\ feats.uppercase[1] <= feats.uppercase[2]
    /\ sample \in {NaN, <<>>} => feats = NothingDetected

\* C11 as stated: detect returns a fully populated record for every sample,
\* nothing detected for a missing or empty one, and uppercase is 0 when the
\* sample holds no alphabetic character.
C11_FullyPopulated ==
    pc = "detected" =>
        /\ FullyPopulated
        /\ (sample = NaN \/ \A i \in 1..Len(sample) : ~IsAlpha(sample[i])) => feats.uppercase = Zero

\* C11, amended: the same, with uppercase 0 when the normalized sample holds
\* no alphabetic character.
C11_FullyPopulatedNormalized ==
    pc = "detected" =>
        /\ FullyPopulated
        /\ (\A i \in 1..Len(text) : ~IsAlpha(text[i])) => feats.uppercase = Zero

\* a sample with letters of both cases and a hesitation
C11_Witness ==
    /\ pc = "detected"
    /\ 0 < feats.uppercase[1]
    /\ feats.uppercase[1] < feats.uppercase[2]
    /\ feats.hesitation_plain

\* the first alternative, in the order given, whose pattern matches; none if none does
FirstMatching(matches, alternatives) ==
    IF \A k \in DOMAIN matches : ~matches[k] THEN None
    ELSE alternatives[CHOOSE k \in DOMAIN matches :
                        matches[k] /\ \A j \in 1..(k - 1) : ~matches[j]]

\* C14: each of percent_mode, currency_mode, thousand_sep_mode, unit_mode and
\* ordinal_style is the earliest alternative, in its fixed order, whose
\* pattern the normalized sample matches, wherever and however often the
\* forms occur, and none when no pattern matches; "20 %" gives symbol_space,
\* "20%" symbol_no_space and "vingt pour cent" word.
C14_FirstMatchWins ==
    pc = "detected" =>
        LET lowered == IgnoreCase(text)
        IN /\ feats.percent_mode =
                FirstMatching(<<Search(RE_PERCENT_SPACE, text), Search(RE_PERCENT_NO_SPACE, text),
                                Search(RE_PERCENT_WORD, lowered)>>,
                              <<"symbol_space", "symbol_no_space", "word">>)
           /\ feats.currency_mode =
                FirstMatching(<<Search(RE_CURRENCY_SYMBOL, text),
                                Search(RE_CURRENCY_PATTERN(order.number), lowered)>>,
                              <<"symbol", "word">>)
           /\ feats.thousand_sep_mode =
                FirstMatching(<<Search(RE_THOUSAND_SPACE, text), Search(RE_THOUSAND_DOT, text),
                                Search(RE_THOUSAND_COMMA, text)>>,
                              <<"space", "dot", "comma">>)
           /\ feats.unit_mode =
                FirstMatching(<<Search(RE_UNIT_WITH_QUANTITY(order.number), lowered),
                                Search(RE_UNIT_LONG, lowered)>>,
                              <<"short", "long">>)
           /\ feats.ordinal_style =
                FirstMatching(<<Search(RE_ORDINAL_DIGIT, lowered),
                                Search(RE_ORDINAL_WORD(order.ordinal), lowered)>>,
                              <<"digit_suffix", "word">>)
           /\ sample = <<"2", "0", " ", "%">> => feats.percent_mode = "symbol_space"
           /\ sample = <<"2", "0", "%">> => feats.percent_mode = "symbol_no_space"
           /\ sample = <<"v", "i", "n", "g", "t", " ", "p", "o", "u", "r", " ", "c", "e", "n", "t">>
                => feats.percent_mode = "word"

\* the word form of the percentage comes first and the attached symbol after
\* it, and detect has answered with the attached symbol
C14_Witness ==
    /\ pc = "detected"
    /\ sample = <<"v", "i", "n", "g", "t", " ", "p", "o", "u", "r", " ", "c", "e", "n", "t",
                  " ", "2", "0", "%">>
    /\ feats.percent_mode = "symbol_no_space"

\* the number words, a longer word before a shorter one: with it the pattern
\* takes at each place the longest number word that stands there
LongestFirst ==
    CHOOSE o \in Orderings(NUMBER_WORDS) :
        \A i, j \in DOMAIN o : i < j => Len(o[i]) >= Len(o[j])

\* C12: number_style follows the counts of the digit numerals and of the
\* lexicon number words in the sample: none when both are 0, the style
\* present when only one is, else the style with the strictly higher count,
\* and digit when the counts are equal.
C12_NumberStyleByCount ==
    pc = "detected" =>
        LET digits == FindAll(Plus(Digit), text)
            words == FindAll(RE_WORD_NUMBER(LongestFirst), IgnoreCase(text))
        IN feats.number_style =
              IF digits = 0 /\ words = 0 THEN None
              ELSE IF words = 0 THEN "digit"
              ELSE IF digits = 0 THEN "word"
              ELSE IF words > digits THEN "word"
              ELSE "digit"

\* -------------------------------------- properties: detect_ordinal_style

\* C17: a sample that holds one of the digit forms the source names, 1er,
\* 2ème, 9e, 5th, 3rd or 3º, has ordinal_style digit_suffix.
C17_DigitSuffixForms ==
    (pc = "ordinal_detected" /\ \E form \in OrdinalForms : Contains(sample, form))
        => feats.ordinal_style = "digit_suffix"

\* ----------------------------------------- properties: detect_date_style

\* C13: with no date of any of the three forms the result is none; else it
\* is a form with the highest count, the earliest of them in the order
\* dd/mm/yyyy, yyyy-mm-dd, dd_month_yyyy: a form with a strictly smaller
\* count than another is never returned.
C13_MostFrequentDateForm ==
    pc = "date_detected" =>
        LET counts == DateCounts(text)
        IN IF \A k \in 1..3 : counts[k] = 0 THEN feats.date_format = None
           ELSE \E k \in 1..3 :
                    /\ feats.date_format = DateForms[k]
                    /\ \A j \in 1..3 : counts[j] <= counts[k]
                    /\ \A j \in 1..(k - 1) : counts[j] < counts[k]

\* the first form occurs, and the second form, which occurs more often, is returned
C13_Witness ==
    /\ pc = "date_detected"
    /\ DateCounts(text)[1] > 0
    /\ DateCounts(text)[2] > DateCounts(text)[1]
    /\ feats.date_format = "yyyy-mm-dd"

====
